---- MODULE Spec2Model ----
(***************************************************************************)
(* Model of src/main.py: the loader (load_csv_file), the ranking           *)
(* (process_top_names) and the batch pipeline (main) over two yearly       *)
(* first-name files.                                                       *)
(*                                                                         *)
(* Text is modelled at token level: a line is a sequence of tokens, a      *)
(* token is a decimal integer literal (Num), a delimiter or a word (Txt).  *)
(* pandas' read_csv / to_csv are modelled by what they do to that text:    *)
(* splitting at the delimiter, header row, NA detection, per-column type   *)
(* inference, joining with the delimiter.                                  *)
(*                                                                         *)
(* Input domain: rectangular files (every data line has as many fields as  *)
(* the header), header names pairwise distinct and still distinct after    *)
(* the rename, no quoting, "nombre" cells are integer literals.            *)
(***************************************************************************)
EXTENDS Integers, Sequences, FiniteSets, TLC

VARIABLES
    fs,        \* file system: file name -> file (a name outside DOMAIN fs is absent)
    pc,        \* position of the process
    frames,    \* local DataFrame variables that have been assigned
    loads,     \* per load_csv_file call (by file name): what the call did
    stdout,    \* report lines printed so far
    log,       \* logging.error records emitted so far
    exitCode,  \* -1 while running, else the process exit status
    exports,   \* per export step: "ok" or the exception caught
    ran,       \* steps of main() after the loads that have executed
    gender,    \* filles / garcons rankings of main()
    top        \* last process_top_names call of the function driver

vars == <<fs, pc, frames, loads, stdout, log, exitCode, exports, ran, gender, top>>

----------------------------------------------------------------------------
(* Bounds of the model *)

\* most data lines in an input file
MaxRows == 2
\* largest top_n the function driver passes to process_top_names
MaxN == 2

\* top_n=10 default of process_top_names, nlargest(10) in main
TOP_N == 10

----------------------------------------------------------------------------
(* Text *)

Txt(s) == [isnum |-> FALSE, num |-> 0, txt |-> s]
Num(i) == [isnum |-> TRUE, num |-> i, txt |-> ""]

COMMA == Txt(",")
SEMICOLON == Txt(";")

Range(s) == {s[i] : i \in DOMAIN s}

\* str.split of one line at a delimiter token: the sequence of fields
Split(line, sep) ==
    LET RECURSIVE go(_, _, _)
        go(i, cur, acc) ==
            IF i > Len(line) THEN Append(acc, cur)
            ELSE IF line[i] = sep THEN go(i + 1, <<>>, Append(acc, cur))
            ELSE go(i + 1, Append(cur, line[i]), acc)
    IN go(1, <<>>, <<>>)

\* sep.join(fields)
Join(fields, sep) ==
    LET RECURSIVE go(_)
        go(i) ==
            IF i > Len(fields) THEN <<>>
            ELSE IF i = 1 THEN fields[1] \o go(2)
            ELSE <<sep>> \o fields[i] \o go(i + 1)
    IN go(1)

----------------------------------------------------------------------------
(* DataFrame values *)

IntV(i) == [k |-> "int", i |-> i, s |-> <<>>]
StrV(s) == [k |-> "str", i |-> 0, s |-> s]
NaN == [k |-> "nan", i |-> 0, s |-> <<>>]

Name(s) == <<Txt(s)>>

\* pandas' default na_values, as far as the model's words go
NaWords == {"", "NA", "NaN", "nan", "null", "NULL", "None", "N/A", "n/a"}

IsNA(field) ==
    \/ field = <<>>
    \/ Len(field) = 1 /\ ~field[1].isnum /\ field[1].txt \in NaWords

IsIntField(field) == Len(field) = 1 /\ field[1].isnum

----------------------------------------------------------------------------
(* pandas.read_csv *)

NoFrame == [columns |-> <<>>, dtypes |-> <<>>, rows |-> <<>>]

\* dtype pandas infers for a parsed column from its cells
InferDtype(cells) ==
    IF cells = <<>> THEN "object"
    ELSE IF \E i \in DOMAIN cells : ~IsNA(cells[i]) /\ ~IsIntField(cells[i]) THEN "object"
    ELSE IF \E i \in DOMAIN cells : IsNA(cells[i]) THEN "float64"
    ELSE "int64"

\* value of one cell in a column of the given dtype: in an object column the
\* cells stay text, so the text "1" is the string '1' and not the number 1
ParseCell(field, dtype) ==
    IF IsNA(field) THEN NaN
    ELSE IF dtype = "object" THEN StrV(field)
    ELSE IntV(field[1].num)

\* the table read_csv builds: first line is the header, blank lines are
\* skipped, a short line is padded with NaN
ParseTable(lines, sep) ==
    LET header == Split(lines[1], sep)
        body == SelectSeq(Tail(lines), LAMBDA l : l # <<>>)
        data == [r \in DOMAIN body |-> Split(body[r], sep)]
        cell(r, j) == IF j <= Len(data[r]) THEN data[r][j] ELSE <<>>
        column(j) == [r \in DOMAIN data |-> cell(r, j)]
        dtypes == [j \in DOMAIN header |-> InferDtype(column(j))]
    IN [columns |-> header,
        dtypes |-> dtypes,
        rows |-> [r \in DOMAIN data |->
                    [j \in DOMAIN header |-> ParseCell(cell(r, j), dtypes[j])]]]

\* pd.read_csv(filename, sep=sep, engine=engine): a DataFrame or the exception
\* raised. A "tokenizer" file is one the C tokenizer rejects and the python
\* engine reads (an unterminated quote); a "malformed" file is rejected by both.
read_csv(f, sep, engine) ==
    IF f.lines = <<>>
    THEN [ok |-> FALSE, error |-> "EmptyDataError", df |-> NoFrame]
    ELSE IF f.defect = "malformed" \/ (f.defect = "tokenizer" /\ engine = "c")
    THEN [ok |-> FALSE, error |-> "ParserError", df |-> NoFrame]
    ELSE [ok |-> TRUE, error |-> "", df |-> ParseTable(f.lines, sep)]

----------------------------------------------------------------------------
(* load_csv_file *)

\* required_columns: source name -> canonical name, in dict order
required_columns == <<"sexe", "prenom", "nombre">>
Canonical(col) ==
    CASE col = "sexe" -> "Sexe"
      [] col = "prenom" -> "Prenom"
      [] col = "nombre" -> "Nombre"

HasColumn(df, col) == \E j \in DOMAIN df.columns : df.columns[j] = Name(col)
ColIdx(df, col) == CHOOSE j \in DOMAIN df.columns : df.columns[j] = Name(col)

\* mutant of MissingColumns: the loop stops at the first missing column
MissingColumnsFirstOnly(df) ==
    LET all == SelectSeq(required_columns, LAMBDA col : ~HasColumn(df, col))
    IN IF all = <<>> THEN <<>> ELSE <<all[1]>>

\* the loop "for col in required_columns.keys(): if col not in df.columns"
MissingColumns(df) == SelectSeq(required_columns, LAMBDA col : ~HasColumn(df, col))

\* df.rename(columns=required_columns)
Rename(df) ==
    [df EXCEPT !.columns =
        [j \in DOMAIN df.columns |->
            IF \E i \in DOMAIN required_columns : df.columns[j] = Name(required_columns[i])
            THEN Name(Canonical(
                    required_columns[CHOOSE i \in DOMAIN required_columns :
                                        df.columns[j] = Name(required_columns[i])]))
            ELSE df.columns[j]]]

\* Series.map({1: 'M', 2: 'F'}) on one value: a key that is not in the dict,
\* the string '1' included, gives NaN
MapSexe(v) ==
    IF v = IntV(1) THEN StrV(Name("M"))
    ELSE IF v = IntV(2) THEN StrV(Name("F"))
    ELSE NaN

\* df['Sexe'] = df['Sexe'].map({1: 'M', 2: 'F'})
DecodeSexe(df) ==
    LET si == ColIdx(df, "Sexe")
    IN [df EXCEPT !.rows = [r \in DOMAIN df.rows |->
                              [df.rows[r] EXCEPT ![si] = MapSexe(df.rows[r][si])]],
                  !.dtypes = [df.dtypes EXCEPT ![si] = "object"]]

\* what a load_csv_file call did: ok with the DataFrame returned, or the
\* exception that reached its handlers, each of which ends in sys.exit(1)
LoadExit(error, missing, attempts, handler) ==
    [ok |-> FALSE, df |-> NoFrame, error |-> error, missing |-> missing,
     attempts |-> attempts, handler |-> handler]
LoadReturn(df, attempts) ==
    [ok |-> TRUE, df |-> df, error |-> "", missing |-> <<>>,
     attempts |-> attempts, handler |-> ""]

\* the except clause (lines 81-92) that catches an exception of the given type
Handler(error) ==
    CASE error = "FileNotFoundError" -> "File not found"
      [] error = "EmptyDataError" -> "No data"
      [] error = "ParserError" -> "Error parsing"
      [] OTHER -> "Unexpected error loading"

\* lines 50-79: validation, rename, decoding of a parsed table
Validate(df, attempts) ==
    LET missing == MissingColumns(df)
    IN IF missing # <<>>
       THEN LoadExit("ValueError", missing, attempts, Handler("ValueError"))
       ELSE LoadReturn(DecodeSexe(Rename(df)), attempts)

\* one read_csv call, as logged: the engine used and whether it returned
Attempt(engine, res) == [engine |-> engine, ok |-> res.ok]

\* mutant of ParseStrategies: the python engine is tried whatever the C engine did
ParseStrategiesAlwaysBoth(f, sep) ==
    LET first == read_csv(f, sep, "c")
        second == read_csv(f, sep, "python")
    IN [ok |-> second.ok, error |-> second.error, df |-> second.df,
        attempts |-> <<Attempt("c", first), Attempt("python", second)>>]

\* lines 37-48: the C engine first, the python engine only after it raised
ParseStrategies(f, sep) ==
    LET first == read_csv(f, sep, "c")
        second == read_csv(f, sep, "python")
    IN IF first.ok
       THEN [ok |-> TRUE, error |-> "", df |-> first.df,
             attempts |-> <<Attempt("c", first)>>]
       ELSE [ok |-> second.ok, error |-> second.error, df |-> second.df,
             attempts |-> <<Attempt("c", first), Attempt("python", second)>>]

\* load_csv_file(filename, sep, encoding): the sep argument is not used, both
\* read_csv calls pass sep=','
load_csv_file(files, filename, sep) ==
    IF filename \notin DOMAIN files
    THEN LoadExit("FileNotFoundError", <<>>, <<>>, Handler("FileNotFoundError"))
    ELSE IF files[filename].defect = "encoding"
    THEN LoadExit("UnicodeDecodeError", <<>>, <<>>, Handler("UnicodeDecodeError"))
    ELSE LET parsed == ParseStrategies(files[filename], COMMA)
         IN IF ~parsed.ok
            THEN LoadExit(parsed.error, <<>>, parsed.attempts, Handler(parsed.error))
            ELSE Validate(parsed.df, parsed.attempts)

----------------------------------------------------------------------------
(* groupby / nlargest / process_top_names *)

\* Python's str order on the names of the model
NameOrder == <<"Jean", "Marie">>
NameKey(v) == CHOOSE i \in DOMAIN NameOrder : v.s = Name(NameOrder[i])

\* a set of name values as the sequence sorted by str order (groupby sort=True)
SortNames(S) ==
    LET RECURSIVE go(_)
        go(T) ==
            IF T = {} THEN <<>>
            ELSE LET m == CHOOSE x \in T : \A y \in T : NameKey(x) <= NameKey(y)
                 IN <<m>> \o go(T \ {m})
    IN go(S)

\* sum of column "Nombre" over the rows numbered in rows (NaN is skipped)
SumNombre(df, rows) ==
    LET ni == ColIdx(df, "Nombre")
        RECURSIVE go(_)
        go(r) ==
            IF r > Len(df.rows) THEN 0
            ELSE (IF r \in rows /\ df.rows[r][ni].k = "int"
                  THEN df.rows[r][ni].i ELSE 0) + go(r + 1)
    IN go(1)

\* df.groupby("Prenom")["Nombre"].sum(): one <<name, total>> per distinct
\* name, by name; rows whose key is NaN belong to no group (dropna=True)
GroupSum(df) ==
    LET pi == ColIdx(df, "Prenom")
        keys == SortNames({df.rows[r][pi] : r \in DOMAIN df.rows} \ {NaN})
    IN [g \in DOMAIN keys |->
          [prenom |-> keys[g],
           total |-> SumNombre(df, {r \in DOMAIN df.rows : df.rows[r][pi] = keys[g]})]]

\* mutant of NLargest: the first n entries of the series, not the n greatest
NLargestHead(series, n) ==
    [i \in 1..(IF n < Len(series) THEN (IF n < 0 THEN 0 ELSE n) ELSE Len(series)) |-> series[i]]

\* Series.nlargest(n), keep='first': the n greatest values, greatest first,
\* equal values in their order in the series
NLargest(series, n) ==
    LET RECURSIVE go(_, _)
        go(left, k) ==
            IF k <= 0 \/ left = <<>> THEN <<>>
            ELSE LET m == CHOOSE i \in DOMAIN left :
                            /\ \A j \in DOMAIN left : left[j].total <= left[i].total
                            /\ \A j \in 1..(i - 1) : left[j].total < left[i].total
                 IN <<left[m]>> \o
                    go([j \in 1..(Len(left) - 1) |-> IF j < m THEN left[j] ELSE left[j + 1]],
                       k - 1)
    IN go(series, n)

\* nlargest raises TypeError on an object column; the Nombre column of a frame
\* without rows is one. The exception is caught where nlargest is called, so
\* the ranking of such a frame is empty whether or not it is raised.
NLargestRaises(df) == df.dtypes[ColIdx(df, "Nombre")] = "object"

\* the report lines printed for a ranking
ReportLines(label, ranking) ==
    [i \in DOMAIN ranking |->
        [label |-> label, rank |-> i, prenom |-> ranking[i].prenom,
         occurrence |-> ranking[i].total]]

\* process_top_names(df, year, top_n): the Series returned, the lines printed,
\* and whether the except clause ran (it returns an empty Series)
process_top_names(df, year, top_n) ==
    IF NLargestRaises(df)
    THEN [result |-> <<>>, lines |-> <<>>, caught |-> TRUE, raised |-> FALSE]
    ELSE LET top_names == NLargest(GroupSum(df), top_n)
         IN [result |-> top_names, lines |-> ReportLines(year, top_names),
             caught |-> FALSE, raised |-> FALSE]

\* df[df["Sexe"] == value]
FilterSexe(df, value) ==
    LET si == ColIdx(df, "Sexe")
    IN [df EXCEPT !.rows = SelectSeq(df.rows, LAMBDA row : row[si] = StrV(Name(value)))]

----------------------------------------------------------------------------
(* pd.concat and DataFrame.to_csv *)

\* dtype of two blocks put together
Promote(a, b) ==
    IF a = b THEN a
    ELSE IF {a, b} \subseteq {"int64", "float64"} THEN "float64"
    ELSE "object"

\* mutant of Concat: rows of b that a already holds are dropped
ConcatDedup(a, b, skipEmpty) ==
    [a EXCEPT !.rows = a.rows \o SelectSeq(b.rows, LAMBDA row : row \notin Range(a.rows))]

\* pd.concat([a, b], ignore_index=True): the columns of a, then those only b
\* has; the rows of a, then the rows of b; a cell of a missing column is NaN.
\* skipEmpty: whether a frame without rows is left out when the result dtype
\* is found (pandas before 3.0) or not (pandas 3.0).
Concat(a, b, skipEmpty) ==
    LET extra == SelectSeq(b.columns, LAMBDA c : \A j \in DOMAIN a.columns : a.columns[j] # c)
        cols == a.columns \o extra
        has(df, c) == \E j \in DOMAIN df.columns : df.columns[j] = c
        idx(df, c) == CHOOSE j \in DOMAIN df.columns : df.columns[j] = c
        cellOf(df, r, c) == IF has(df, c) THEN df.rows[r][idx(df, c)] ELSE NaN
        block(df, c) ==
            IF has(df, c) THEN df.dtypes[idx(df, c)]
            ELSE "float64"
        counts(df) == ~(skipEmpty /\ df.rows = <<>>)
        dtype(c) ==
            IF counts(a) /\ counts(b) THEN Promote(block(a, c), block(b, c))
            ELSE IF counts(a) THEN block(a, c)
            ELSE IF counts(b) THEN block(b, c)
            ELSE Promote(block(a, c), block(b, c))
    IN [columns |-> cols,
        dtypes |-> [j \in DOMAIN cols |-> dtype(cols[j])],
        rows |-> [r \in DOMAIN a.rows |-> [j \in DOMAIN cols |-> cellOf(a, r, cols[j])]]
                 \o [r \in DOMAIN b.rows |-> [j \in DOMAIN cols |-> cellOf(b, r, cols[j])]]]

\* text of one value as to_csv writes it (na_rep='')
FormatValue(v) ==
    IF v.k = "nan" THEN <<>>
    ELSE IF v.k = "int" THEN <<Num(v.i)>>
    ELSE v.s

\* df.to_csv(path, sep=sep, encoding="utf-8", index=False): header line, then
\* one line per row
to_csv(df, sep) ==
    [lines |-> <<Join(df.columns, sep)>> \o
               [r \in DOMAIN df.rows |->
                   Join([j \in DOMAIN df.columns |-> FormatValue(df.rows[r][j])], sep)],
     defect |-> "none"]

\* df.groupby("Prenom")["Nombre"].sum().reset_index(): the grouped table
GroupedFrame(df) ==
    LET g == GroupSum(df)
    IN [columns |-> <<Name("Prenom"), Name("Nombre")>>,
        dtypes |-> <<"object", df.dtypes[ColIdx(df, "Nombre")]>>,
        rows |-> [i \in DOMAIN g |-> <<g[i].prenom, IntV(g[i].total)>>]]

----------------------------------------------------------------------------
(* Input files *)

\* one source record as text: the cells of columns sexe, prenom, nombre
Rec(sexe, prenom, nombre) == [sexe |-> sexe, prenom |-> prenom, nombre |-> nombre]

\* the cell a record puts under a header column
CellFor(col, rec) ==
    CASE col \in {"sexe", "Sexe"} -> rec.sexe
      [] col = "prenom" -> rec.prenom
      [] col = "nombre" -> rec.nombre
      [] OTHER -> <<Num(2003)>>

\* the text of a file with the given header written with delimiter sep
InputFile(header, recs, sep, defect) ==
    [lines |-> <<Join([j \in DOMAIN header |-> Name(header[j])], sep)>> \o
               [r \in DOMAIN recs |->
                   Join([j \in DOMAIN header |-> CellFor(header[j], recs[r])], sep)],
     defect |-> defect]

SeqsUpTo(S, n) == UNION {[1..k -> S] : k \in 0..n}

CanonicalHeader == <<"sexe", "prenom", "nombre">>

\* a file with no bytes
EmptyFile == [lines |-> <<>>, defect |-> "none"]
\* stands for "no such file" when the inputs are drawn
Absent == [lines |-> <<>>, defect |-> "absent"]

F2003 == "Prenoms2003.csv"
F2004 == "Prenoms2004.csv"
OUT_MERGED == "Prenoms2003-2004.csv"
OUT_GROUPED == "Prenoms2003-2004_Jointure.csv"

\* records of the two-file runs
MainRecs ==
    { Rec(<<Num(1)>>, Name("Jean"), <<Num(5)>>),
      Rec(<<Num(2)>>, Name("Marie"), <<Num(7)>>),
      Rec(<<Num(1)>>, Name("Jean"), <<Num(3)>>),
      Rec(<<Num(3)>>, Name("Marie"), <<Num(5)>>) }

ScenarioA == <<Rec(<<Num(1)>>, Name("Jean"), <<Num(5)>>),
               Rec(<<Num(2)>>, Name("Marie"), <<Num(7)>>)>>
ScenarioB == <<Rec(<<Num(1)>>, Name("Jean"), <<Num(3)>>)>>

\* inputs of one slot of a two-file run: well-formed files, and one file for
\* each way a load fails
MainInputs ==
    {InputFile(CanonicalHeader, recs, COMMA, "none") : recs \in SeqsUpTo(MainRecs, MaxRows)}
    \cup {InputFile(CanonicalHeader, ScenarioB, COMMA, d) : d \in {"tokenizer", "malformed", "encoding"}}
    \cup {InputFile(<<"sexe", "prenom">>, ScenarioB, COMMA, "none"),
          InputFile(CanonicalHeader, ScenarioB, SEMICOLON, "none"),
          EmptyFile, Absent}

FileSystem(names, files) ==
    [n \in {m \in DOMAIN names : files[m] # Absent} |-> files[n]]

\* records of the single-load runs that vary the sex code
LoadRecs ==
    { Rec(<<s>>, Name("Jean"), <<Num(5)>>) : s \in {Num(1), Num(2), Num(3), Txt("X")} }

\* records of the single-load runs that vary name and count
AggRecs ==
    { Rec(<<Num(1)>>, p, <<Num(c)>>) :
        p \in {Name("Jean"), Name("Marie"), <<>>}, c \in {3, 5, -1} }

Headers ==
    { CanonicalHeader,
      <<"nombre", "prenom", "sexe">>,
      <<"sexe", "prenom", "nombre", "annee">>,
      <<"sexe", "prenom">>,
      <<"Sexe", "prenom">>,
      <<"annee">> }

FnInputs ==
    {InputFile(h, recs, COMMA, "none") : h \in Headers, recs \in SeqsUpTo(LoadRecs, MaxRows)}
    \cup {InputFile(CanonicalHeader, recs, SEMICOLON, "none") : recs \in SeqsUpTo(LoadRecs, MaxRows)}
    \cup {InputFile(CanonicalHeader, recs, COMMA, d) :
            recs \in SeqsUpTo(LoadRecs, 1), d \in {"tokenizer", "malformed", "encoding"}}
    \cup {InputFile(CanonicalHeader, recs, COMMA, "none") : recs \in SeqsUpTo(AggRecs, MaxRows)}
    \cup {EmptyFile, Absent}

INPUT == "input.csv"
OUTPUT == "output.csv"

----------------------------------------------------------------------------
(* The process *)

NoTop == [n |-> 0, result |-> <<>>, lines |-> <<>>, caught |-> FALSE, raised |-> FALSE]
NoGender == [filles |-> <<>>, garcons |-> <<>>]

Summary(r) ==
    [ok |-> r.ok, error |-> r.error, missing |-> r.missing,
     attempts |-> r.attempts, handler |-> r.handler]

InitCommon ==
    /\ frames = <<>>
    /\ loads = <<>>
    /\ stdout = <<>>
    /\ log = <<>>
    /\ exitCode = -1
    /\ exports = <<>>
    /\ ran = {}
    /\ gender = NoGender
    /\ top = NoTop

\* main() is about to run on two input files (either may be absent)
Init ==
    /\ \E a \in MainInputs, b \in MainInputs :
          fs = FileSystem(F2003 :> 0 @@ F2004 :> 0, F2003 :> a @@ F2004 :> b)
    /\ pc = "load2003"
    /\ InitCommon

\* mutant of AfterLoad: the handlers log and return instead of exiting
AfterLoadNoExit(r, next) == [pc |-> next, exitCode |-> -1]

\* where a load_csv_file call leaves the process: at the caller's next
\* statement, or exited with status 1 from one of the handlers (lines 81-92)
AfterLoad(r, next) ==
    IF r.ok THEN [pc |-> next, exitCode |-> -1]
    ELSE [pc |-> "exited", exitCode |-> 1]

\* var = load_csv_file(filename)
LoadStep(at, filename, var, next) ==
    /\ pc = at
    /\ LET r == load_csv_file(fs, filename, SEMICOLON)
           after == AfterLoad(r, next)
       IN /\ loads' = (filename :> Summary(r)) @@ loads
          /\ pc' = after.pc
          /\ exitCode' = after.exitCode
          /\ frames' = IF after.pc = "exited" THEN frames ELSE (var :> r.df) @@ frames
          /\ log' = log \o (IF r.ok THEN <<>> ELSE <<r.handler>>)
                        \o [i \in 1..(IF r.attempts = <<>> THEN 0
                                      ELSE Cardinality({a \in DOMAIN r.attempts : ~r.attempts[a].ok}))
                              |-> "parsing attempt failed"]
    /\ UNCHANGED <<fs, stdout, exports, ran, gender, top>>

Load2003 == LoadStep("load2003", F2003, "prenoms2003", "load2004")
Load2004 == LoadStep("load2004", F2004, "prenoms2004", "concat")

\* prenoms_2003_2004 = pd.concat([prenoms2003, prenoms2004], ignore_index=True)
ConcatStep ==
    /\ pc = "concat"
    /\ \E skipEmpty \in BOOLEAN :
          frames' = ("prenoms_2003_2004" :>
                        Concat(frames["prenoms2003"], frames["prenoms2004"], skipEmpty))
                    @@ frames
    /\ pc' = "export_merged"
    /\ UNCHANGED <<fs, loads, stdout, log, exitCode, exports, ran, gender, top>>

\* what a to_csv call can do: write the file, or raise
ExportOutcomes == {"ok", "PermissionError", "OSError"}

\* mutant of ExportCaught: only the PermissionError clause is there
ExportCaughtPermissionOnly(outcome) == outcome = "PermissionError"

\* whether the except clauses around an export (128-131, 158-161) catch it
ExportCaught(outcome) == outcome \in {"PermissionError", "OSError"}

\* an export step: try to_csv; a caught exception is logged and the run goes
\* on; one not caught reaches main's handler (163-165): log, sys.exit(1).
\* A failed to_csv is taken to leave no file behind.
ExportStep(at, step, path, df, next) ==
    /\ pc = at
    /\ \E outcome \in ExportOutcomes :
          /\ exports' = (step :> outcome) @@ exports
          /\ fs' = IF outcome = "ok" THEN (path :> to_csv(df, SEMICOLON)) @@ fs ELSE fs
          /\ IF outcome = "ok"
             THEN /\ log' = log
                  /\ pc' = next
                  /\ exitCode' = exitCode
             ELSE IF ExportCaught(outcome)
             THEN /\ log' = Append(log, "export failed: " \o outcome)
                  /\ pc' = next
                  /\ exitCode' = exitCode
             ELSE /\ log' = Append(log, "Unexpected error in main processing")
                  /\ pc' = "exited"
                  /\ exitCode' = 1
    /\ ran' = ran \cup {step}
    /\ UNCHANGED <<frames, loads, stdout, gender, top>>

ExportMerged ==
    ExportStep("export_merged", "export_merged", OUT_MERGED,
               frames["prenoms_2003_2004"], "top2003")

\* process_top_names(df, year) called from main: the return value is dropped
TopStep(at, step, var, year, next) ==
    /\ pc = at
    /\ LET t == process_top_names(frames[var], year, TOP_N)
       IN /\ stdout' = stdout \o t.lines
          /\ log' = IF t.caught THEN Append(log, "Error processing top names") ELSE log
    /\ pc' = next
    /\ ran' = ran \cup {step}
    /\ UNCHANGED <<fs, frames, loads, exitCode, exports, gender, top>>

Top2003 == TopStep("top2003", "top2003", "prenoms2003", "Prénom 2003", "top2004")
Top2004 == TopStep("top2004", "top2004", "prenoms2004", "Prénom 2004", "gender")

\* lines 138-151: both rankings are computed before anything is printed
GenderStep ==
    /\ pc = "gender"
    /\ LET merged == frames["prenoms_2003_2004"]
       IN IF NLargestRaises(merged)
          THEN /\ log' = Append(log, "Error processing names by gender")
               /\ UNCHANGED <<gender, stdout>>
          ELSE LET filles == NLargest(GroupSum(FilterSexe(merged, "F")), TOP_N)
                   garcons == NLargest(GroupSum(FilterSexe(merged, "M")), TOP_N)
               IN /\ gender' = [filles |-> filles, garcons |-> garcons]
                  /\ stdout' = stdout \o ReportLines("Prénom Fille", filles)
                                      \o ReportLines("Prénom Garçon", garcons)
                  /\ log' = log
    /\ pc' = "export_grouped"
    /\ ran' = ran \cup {"gender"}
    /\ UNCHANGED <<fs, frames, loads, exitCode, exports, top>>

ExportGrouped ==
    ExportStep("export_grouped", "export_grouped", OUT_GROUPED,
               GroupedFrame(frames["prenoms_2003_2004"]), "return")

\* main() returns and the interpreter exits with status 0
Return ==
    /\ pc = "return"
    /\ pc' = "done"
    /\ exitCode' = 0
    /\ UNCHANGED <<fs, frames, loads, stdout, log, exports, ran, gender, top>>

Next ==
    \/ Load2003
    \/ Load2004
    \/ ConcatStep
    \/ ExportMerged
    \/ Top2003
    \/ Top2004
    \/ GenderStep
    \/ ExportGrouped
    \/ Return

Spec == Init /\ [][Next]_vars

----------------------------------------------------------------------------
(* Function driver: one load_csv_file call on one file, then the operations *)
(* main() applies to a loaded DataFrame, each called on its own             *)

InitFn ==
    /\ \E f \in FnInputs : fs = FileSystem(INPUT :> 0, INPUT :> f)
    /\ pc = "call"
    /\ InitCommon

\* df = load_csv_file("input.csv")
CallLoad == LoadStep("call", INPUT, "df", "loaded")

\* process_top_names(df, year, n)
CallTopNames ==
    /\ pc = "loaded"
    /\ \E n \in 0..MaxN :
          LET t == process_top_names(frames["df"], "Prénom", n)
          IN /\ top' = [n |-> n, result |-> t.result, lines |-> t.lines,
                        caught |-> t.caught, raised |-> t.raised]
             /\ stdout' = stdout \o t.lines
             /\ log' = IF t.caught THEN Append(log, "Error processing top names") ELSE log
    /\ pc' = "ranked"
    /\ UNCHANGED <<fs, frames, loads, exitCode, exports, ran, gender>>

\* grouped = df.groupby("Prenom")["Nombre"].sum().reset_index()
CallGroupBy ==
    /\ pc = "loaded"
    /\ frames' = ("grouped" :> GroupedFrame(frames["df"])) @@ frames
    /\ pc' = "grouped"
    /\ UNCHANGED <<fs, loads, stdout, log, exitCode, exports, ran, gender, top>>

\* df.to_csv("output.csv", sep=";", encoding="utf-8", index=False)
CallExport ==
    /\ pc = "loaded"
    /\ fs' = (OUTPUT :> to_csv(frames["df"], SEMICOLON)) @@ fs
    /\ pc' = "exported"
    /\ UNCHANGED <<frames, loads, stdout, log, exitCode, exports, ran, gender, top>>

\* again = load_csv_file("output.csv")
CallReload == LoadStep("exported", OUTPUT, "again", "reloaded")

NextFn ==
    \/ CallLoad
    \/ CallTopNames
    \/ CallGroupBy
    \/ CallExport
    \/ CallReload

SpecFn == InitFn /\ [][NextFn]_vars

----------------------------------------------------------------------------
(* Vocabulary of the properties: what the input text says, read without the *)
(* loader, and sums taken row by row                                        *)

\* the comma-separated words of the header line
HeaderWords(f) == Split(f.lines[1], COMMA)

\* the required source columns the header line lacks
AbsentColumns(f) ==
    {c \in Range(required_columns) : Name(c) \notin Range(HeaderWords(f))}

\* both engines can read the file
Readable(f) == f.lines # <<>> /\ f.defect \notin {"malformed", "encoding"}

\* the file is absent, empty, undecodable, unparseable or lacks a column
LoadMustFail(files, name) ==
    \/ name \notin DOMAIN files
    \/ ~Readable(files[name])
    \/ AbsentColumns(files[name]) # {}

\* the cell of data line r under the header word col
RawCell(f, r, col) ==
    LET h == HeaderWords(f)
    IN Split(f.lines[r + 1], COMMA)[CHOOSE j \in DOMAIN h : h[j] = Name(col)]

SumSeq(seq) ==
    LET RECURSIVE go(_)
        go(i) == IF i > Len(seq) THEN 0 ELSE seq[i] + go(i + 1)
    IN go(1)

\* sum of the counts of the data lines of a file numbered in rows
RawTotal(f, rows) ==
    SumSeq([r \in 1..(Len(f.lines) - 1) |->
               IF r \in rows THEN RawCell(f, r, "nombre")[1].num ELSE 0])

Cell(df, r, col) == df.rows[r][ColIdx(df, col)]

\* sum of Nombre over the rows of a frame numbered in rows
FrameTotal(df, rows) ==
    SumSeq([r \in DOMAIN df.rows |-> IF r \in rows THEN Cell(df, r, "Nombre").i ELSE 0])

\* the names a frame holds
NamesOf(df) == {Cell(df, r, "Prenom") : r \in DOMAIN df.rows} \ {NaN}

\* the totals a ranking gives a name (a set: empty when the name is not ranked)
Ranked(ranking, p) == {ranking[i].total : i \in {j \in DOMAIN ranking : ranking[j].prenom = p}}

\* the (Sexe, Prenom, Nombre) triple of a row, and how often a frame holds one
Triple(df, r) == <<Cell(df, r, "Sexe"), Cell(df, r, "Prenom"), Cell(df, r, "Nombre")>>
Times(df, t) == Cardinality({r \in DOMAIN df.rows : Triple(df, r) = t})

MainSteps == {"export_merged", "top2003", "top2004", "gender", "export_grouped"}

\* the statements of main() after the concat, in program order
MainOrder ==
    <<"export_merged", "top2003", "top2004", "gender", "export_grouped", "return", "done">>

ScenarioFiles ==
    /\ F2003 \in DOMAIN fs /\ fs[F2003] = InputFile(CanonicalHeader, ScenarioA, COMMA, "none")
    /\ F2004 \in DOMAIN fs /\ fs[F2004] = InputFile(CanonicalHeader, ScenarioB, COMMA, "none")

----------------------------------------------------------------------------
(* Properties *)

\* C1: once a load_csv_file call of main() has failed (its file is absent,
\* empty, undecodable, unparseable or lacks a required column), the process
\* has exited with a non-zero status, no later step has run, neither output
\* file exists and nothing has been printed, whichever load it was.
C1_LoadFailureIsFatal ==
    \A name \in DOMAIN loads :
        (LoadMustFail(fs, name) \/ ~loads[name].ok) =>
            /\ ~loads[name].ok
            /\ pc = "exited"
            /\ exitCode > 0
            /\ ran = {}
            /\ "prenoms_2003_2004" \notin DOMAIN frames
            /\ OUT_MERGED \notin DOMAIN fs
            /\ OUT_GROUPED \notin DOMAIN fs
            /\ stdout = <<>>

\* C1 witness: the first load succeeded and the second one failed
C1_Witness ==
    /\ F2003 \in DOMAIN loads /\ loads[F2003].ok
    /\ F2004 \in DOMAIN loads /\ LoadMustFail(fs, F2004)
    /\ pc = "exited"

\* C2: after both loads succeeded, an export that failed is logged and the
\* run is not stopped: the process has not exited on an error, it stands at a
\* later statement of main() with every step before that statement executed,
\* and when it is done every step has executed and the exit status is 0.
C2_ExportFailureIsNotFatal ==
    \A step \in DOMAIN exports :
        exports[step] # "ok" =>
            /\ \E i \in DOMAIN log : log[i] = "export failed: " \o exports[step]
            /\ \E k \in DOMAIN MainOrder :
                  /\ pc = MainOrder[k]
                  /\ ran = {MainOrder[j] : j \in 1..(k - 1)} \cap MainSteps
            /\ exitCode = IF pc = "done" THEN 0 ELSE -1
            /\ pc = "done" => ran = MainSteps

\* C2 witness: the run is done, the merged export had failed with a
\* permission error and the reports were printed after it
C2_Witness ==
    /\ pc = "done"
    /\ exports["export_merged"] = "PermissionError"
    /\ stdout # <<>>

\* C8: the merged frame is the rows of the first frame followed by the rows
\* of the second; the grouped file gives every name the sum of its counts in
\* both input files; each per-sex ranking gives a name the sum of the merged
\* rows of that decoded sex and name, and ranks no other name; and on the
\* scenario inputs Jean = 8, Marie = 7, top overall Jean (8), top female
\* Marie (7), top male Jean (8).
C8_MergeAndGenderRankings ==
    /\ "prenoms_2003_2004" \in DOMAIN frames =>
          LET merged == frames["prenoms_2003_2004"]
              bySex(ranking, sex) ==
                  \A p \in {StrV(Name(NameOrder[i])) : i \in DOMAIN NameOrder} :
                      LET rows == {r \in DOMAIN merged.rows :
                                      /\ Cell(merged, r, "Sexe") = StrV(Name(sex))
                                      /\ Cell(merged, r, "Prenom") = p}
                      IN Ranked(ranking, p) =
                            IF rows = {} THEN {}
                            ELSE {FrameTotal(merged, rows)}
          IN /\ merged.rows = frames["prenoms2003"].rows \o frames["prenoms2004"].rows
             /\ ("gender" \in ran /\ ~NLargestRaises(merged)) =>
                   /\ bySex(gender.filles, "F")
                   /\ bySex(gender.garcons, "M")
    /\ OUT_GROUPED \in DOMAIN fs =>
          LET out == fs[OUT_GROUPED].lines
              totalOf(p) == {Split(out[i], SEMICOLON)[2][1].num :
                               i \in {j \in 2..Len(out) : Split(out[j], SEMICOLON)[1] = Name(p)}}
              inFile(name, p) ==
                  {r \in 1..(Len(fs[name].lines) - 1) : RawCell(fs[name], r, "prenom") = Name(p)}
          IN \A i \in DOMAIN NameOrder :
                LET p == NameOrder[i]
                IN totalOf(p) =
                      IF inFile(F2003, p) = {} /\ inFile(F2004, p) = {} THEN {}
                      ELSE {RawTotal(fs[F2003], inFile(F2003, p))
                            + RawTotal(fs[F2004], inFile(F2004, p))}
    /\ (ScenarioFiles /\ pc = "done") =>
          LET merged == frames["prenoms_2003_2004"]
              jean == StrV(Name("Jean"))
              marie == StrV(Name("Marie"))
          IN /\ GroupSum(merged) = <<[prenom |-> jean, total |-> 8],
                                     [prenom |-> marie, total |-> 7]>>
             /\ process_top_names(merged, "", 1).result = <<[prenom |-> jean, total |-> 8]>>
             /\ gender.filles = <<[prenom |-> marie, total |-> 7]>>
             /\ gender.garcons = <<[prenom |-> jean, total |-> 8]>>

\* C8 witness: the run on the scenario inputs is done and both files are written
C8_Witness ==
    /\ ScenarioFiles
    /\ pc = "done"
    /\ OUT_GROUPED \in DOMAIN fs
    /\ Len(frames["prenoms_2003_2004"].rows) = 3

\* C3: a dataset that load_csv_file returned, exported the way main() exports
\* (header, ";", no index) and loaded again with load_csv_file, comes back as
\* a dataset with the same multiset of (Sexe, Prenom, Nombre) triples.
C3_RoundTrip ==
    OUTPUT \in DOMAIN loads =>
        /\ loads[OUTPUT].ok
        /\ "again" \in DOMAIN frames
        /\ \A t \in {Triple(frames["df"], r) : r \in DOMAIN frames["df"].rows}
                \cup {Triple(frames["again"], r) : r \in DOMAIN frames["again"].rows} :
              Times(frames["again"], t) = Times(frames["df"], t)

\* C4: a dataset that load_csv_file returned has a name in every record, a
\* count >= 0 in every record, and exactly the columns Sexe, Prenom, Nombre.
C4_LoadedDatasetInvariant ==
    "df" \in DOMAIN frames =>
        LET df == frames["df"]
        IN /\ \A r \in DOMAIN df.rows :
                 /\ Cell(df, r, "Prenom") # NaN
                 /\ Cell(df, r, "Nombre").k = "int"
                 /\ Cell(df, r, "Nombre").i >= 0
           /\ Len(df.columns) = 3
           /\ Range(df.columns) = {Name("Sexe"), Name("Prenom"), Name("Nombre")}

\* C5: the per-name totals of the grouped table of a loaded dataset add up to
\* the sum of Nombre over all its records.
C5_Conservation ==
    "grouped" \in DOMAIN frames =>
        FrameTotal(frames["grouped"], DOMAIN frames["grouped"].rows)
            = FrameTotal(frames["df"], DOMAIN frames["df"].rows)

\* C6: process_top_names(d, year, n) returns at most n entries, greatest
\* total first, each entry a name of d with the sum of that name's counts, no
\* name twice, no name left out that has a greater total than a returned one;
\* exactly k entries when d has k < n names; nothing, and no exception, when d
\* has no records.
C6_TopNames ==
    pc = "ranked" =>
        LET d == frames["df"]
            res == top.result
            total(p) == FrameTotal(d, {r \in DOMAIN d.rows : Cell(d, r, "Prenom") = p})
            returned == {res[i].prenom : i \in DOMAIN res}
        IN /\ ~top.raised
           /\ Len(res) <= top.n
           /\ \A i, j \in DOMAIN res : i < j => res[i].total >= res[j].total
           /\ \A i, j \in DOMAIN res : i # j => res[i].prenom # res[j].prenom
           /\ \A i \in DOMAIN res :
                 res[i].prenom \in NamesOf(d) /\ res[i].total = total(res[i].prenom)
           /\ \A p \in NamesOf(d) \ returned : \A i \in DOMAIN res : total(p) <= res[i].total
           /\ Cardinality(NamesOf(d)) < top.n => Len(res) = Cardinality(NamesOf(d))
           /\ d.rows = <<>> => res = <<>>

\* C6 witness: a dataset with two names ranked with n = 1, where the name
\* that comes second in name order has the greater total and is the one kept
C6_Witness ==
    /\ pc = "ranked"
    /\ top.n = 1
    /\ Cardinality(NamesOf(frames["df"])) = 2
    /\ top.result # <<>>
    /\ top.result[1].prenom = StrV(Name("Marie"))

\* C7: when the parsed file lacks required columns, load_csv_file fails with
\* the ValueError whose list holds each missing column once and no column
\* that is present, and no DataFrame reaches the caller; it raises that error
\* for no other file.
C7_SchemaError ==
    \A name \in DOMAIN loads \cap DOMAIN fs :
        LET f == fs[name]
            var == IF name = INPUT THEN "df" ELSE "again"
            r == loads[name]
        IN /\ (Readable(f) /\ AbsentColumns(f) # {}) =>
                 /\ ~r.ok
                 /\ r.error = "ValueError"
                 /\ Range(r.missing) = AbsentColumns(f)
                 /\ Len(r.missing) = Cardinality(AbsentColumns(f))
                 /\ var \notin DOMAIN frames
                 /\ pc = "exited"
           /\ r.error = "ValueError" => (Readable(f) /\ AbsentColumns(f) # {})

\* C7 witness: a header with "Sexe" and "prenom": sexe (by case) and nombre
\* are missing, prenom is not
C7_Witness ==
    /\ INPUT \in DOMAIN loads
    /\ loads[INPUT].missing = <<"sexe", "nombre">>
    /\ Name("Sexe") \in Range(HeaderWords(fs[INPUT]))

\* C9: every record of a loaded dataset has the sex of its own source code:
\* "M" for 1, "F" for 2, null for any other code, and no record is dropped.
C9_SexDecoding ==
    "df" \in DOMAIN frames =>
        LET df == frames["df"]
            f == fs[INPUT]
        IN /\ Len(df.rows) = Len(f.lines) - 1
           /\ \A r \in DOMAIN df.rows :
                 Cell(df, r, "Sexe") =
                    IF RawCell(f, r, "sexe") = <<Num(1)>> THEN StrV(Name("M"))
                    ELSE IF RawCell(f, r, "sexe") = <<Num(2)>> THEN StrV(Name("F"))
                    ELSE NaN

\* C10: in one load_csv_file call the C engine is tried first and once; the
\* python engine is tried only after the C engine failed, and once; it is not
\* tried when the C engine succeeded; when both failed the process has exited
\* with a non-zero status and no DataFrame reached the caller.
C10_ParseOrder ==
    \A name \in DOMAIN loads \cap DOMAIN fs :
        LET a == loads[name].attempts
            f == fs[name]
            var == IF name = INPUT THEN "df" ELSE "again"
            fastFails == f.lines = <<>> \/ f.defect \in {"tokenizer", "malformed"}
        IN /\ Len(a) <= 2
           /\ Len(a) >= 1 => a[1].engine = "c" /\ a[1].ok = ~fastFails
           /\ Len(a) = 2 => a[2].engine = "python" /\ ~a[1].ok
           /\ (f.defect # "encoding" /\ fastFails) => Len(a) = 2
           /\ (f.defect # "encoding" /\ ~fastFails) => Len(a) = 1
           /\ (Len(a) = 2 /\ ~a[2].ok) =>
                 /\ ~loads[name].ok
                 /\ loads[name].error \in {"ParserError", "EmptyDataError"}
                 /\ pc = "exited"
                 /\ exitCode > 0
                 /\ var \notin DOMAIN frames

\* C10 witness: a file the C engine rejected and the python engine read
C10_Witness ==
    /\ INPUT \in DOMAIN loads
    /\ Len(loads[INPUT].attempts) = 2
    /\ loads[INPUT].attempts[2].ok
    /\ loads[INPUT].ok

====
